---------------------------- MODULE Spec2Model ----------------------------
(***************************************************************************)
(* A model of the resume analyser (src/app.py): the POST /analyze handler  *)
(* with its scratch file, and the pure text functions it calls             *)
(* (extract_text_from_pdf, extract_contact_info,                           *)
(* extract_score_from_analysis, the reply parser of                        *)
(* get_course_recommendations).                                            *)
(*                                                                         *)
(* A Python str is modelled as a sequence of one-character strings, so     *)
(* that strip, split, startswith, endswith, replace and the regular        *)
(* expression are computed character by character, as the code does.      *)
(***************************************************************************)
EXTENDS Integers, Sequences, FiniteSets, TLC

(***************************************************************************)
(* Bounds of the model.                                                    *)
(***************************************************************************)
\* Requests in flight at the same time.
NumReqs == 2
\* Longest text given to extract_contact_info, in characters.
MaxTextLen == 7
\* Longest analysis text given to extract_score_from_analysis, in pieces.
MaxPieces == 4
\* Longest free-form reply, in lines drawn from FewLines.
MaxLongLines == 7
\* Longest free-form reply, in lines drawn from ManyLines.
MaxShortLines == 2
\* Most pages of a PDF, and most lines the engine returns for a page.
MaxPages == 3
MaxPageLines == 2

(***************************************************************************)
(* Program constants.                                                      *)
(***************************************************************************)
\* lines[:5]
NameWindow == 5
\* recommendations[:3]
MaxRecommendations == 3

(***************************************************************************)
(* str methods.                                                            *)
(***************************************************************************)
IsSpace(c) == c \in {" ", "\n", "\t"}

IsDigit(c) == c \in {"0", "1", "2", "3", "4", "5", "6", "7", "8", "9"}

RECURSIVE LStrip(_)
LStrip(s) == IF s # <<>> /\ IsSpace(Head(s)) THEN LStrip(Tail(s)) ELSE s

RECURSIVE RStrip(_)
RStrip(s) ==
    IF s # <<>> /\ IsSpace(s[Len(s)]) THEN RStrip(SubSeq(s, 1, Len(s) - 1)) ELSE s

\* s.strip()
Strip(s) == RStrip(LStrip(s))

\* s.startswith(p)
StartsWith(s, p) == Len(s) >= Len(p) /\ SubSeq(s, 1, Len(p)) = p

\* s.endswith(p)
EndsWith(s, p) == Len(s) >= Len(p) /\ SubSeq(s, Len(s) - Len(p) + 1, Len(s)) = p

\* s.split('\n'): the pieces between the newlines, empty ones kept.
RECURSIVE SplitLines(_)
SplitLines(s) ==
    IF \A i \in 1..Len(s) : s[i] # "\n"
    THEN <<s>>
    ELSE LET i == CHOOSE k \in 1..Len(s) :
                      s[k] = "\n" /\ \A j \in 1..(k - 1) : s[j] # "\n"
         IN  <<SubSeq(s, 1, i - 1)>> \o SplitLines(SubSeq(s, i + 1, Len(s)))

\* s.replace(p, ''): every occurrence of p removed, scanning left to right.
RECURSIVE ReplaceAll(_, _)
ReplaceAll(s, p) ==
    IF s = <<>> THEN <<>>
    ELSE IF StartsWith(s, p) THEN ReplaceAll(SubSeq(s, Len(p) + 1, Len(s)), p)
    ELSE <<Head(s)>> \o ReplaceAll(Tail(s), p)

\* The concatenation of a sequence of strings.
RECURSIVE Concat(_)
Concat(ss) == IF ss = <<>> THEN <<>> ELSE Head(ss) \o Concat(Tail(ss))

\* All sequences over S of length at most n.
SeqsUpTo(S, n) == UNION {[1..k -> S] : k \in 0..n}

\* What a call gives back: a value, or an exception with its str(e).
Returned(v) == [kind |-> "return", value |-> v, error |-> ""]

Raised(msg) == [kind |-> "raise", value |-> <<>>, error |-> msg]

(***************************************************************************)
(* extract_text_from_pdf.  The engine's answer for one page, ocr.ocr(...), *)
(* is None, or a list whose first element is None (no text box was found   *)
(* on the page) or the list of the page's lines; a line is None, a list    *)
(* shorter than two, or [box, (text, confidence)].                         *)
(***************************************************************************)
OcrLine(t) == [kind |-> "text", text |-> t]

NoneLine == [kind |-> "None", text |-> <<>>]

ShortLine == [kind |-> "short", text |-> <<>>]

ResultNone == [kind |-> "None", lines |-> <<>>]

ResultFirstNone == [kind |-> "first_none", lines |-> <<>>]

ResultLines(ls) == [kind |-> "lines", lines |-> ls]

\* str(TypeError) of `for line in None`.
NotIterable == "'NoneType' object is not iterable"

\* The inner loop: text += line[1][0] + "\n" for each line that is not None
\* and has at least two elements.
RECURSIVE PageText(_)
PageText(ls) ==
    IF ls = <<>> THEN <<>>
    ELSE (IF Head(ls).kind = "text" THEN Head(ls).text \o <<"\n">> ELSE <<>>)
         \o PageText(Tail(ls))

\* One iteration of `for image in images` on the text so far.
OcrPage(text, result) ==
    IF result.kind = "None" THEN Returned(text)
    ELSE IF result.kind = "first_none" THEN Raised(NotIterable)
    ELSE Returned(text \o PageText(result.lines))

RECURSIVE OcrPages(_, _)
OcrPages(text, pages) ==
    IF pages = <<>> THEN Returned(text)
    ELSE LET r == OcrPage(text, Head(pages))
         IN  IF r.kind = "raise" THEN r ELSE OcrPages(r.value, Tail(pages))

extract_text_from_pdf(pages) == OcrPages(<<>>, pages)

(***************************************************************************)
(* extract_contact_info: the name.                                         *)
(***************************************************************************)
\* Python's None.
None == <<"None">>

\* Mutant: every line is a candidate, not only the first five.
FirstLinesAll(t) == SplitLines(t)

\* lines[:5]
FirstLines(t) ==
    LET ls == SplitLines(t)
    IN  SubSeq(ls, 1, IF Len(ls) < NameWindow THEN Len(ls) ELSE NameWindow)

NameCandidate(line) ==
    Strip(line) # <<>> /\ \A i \in 1..Len(line) : ~IsDigit(line[i])

RECURSIVE FirstName(_)
FirstName(ls) ==
    IF ls = <<>> THEN None
    ELSE IF NameCandidate(Head(ls)) THEN Strip(Head(ls))
    ELSE FirstName(Tail(ls))

ExtractName(t) == FirstName(FirstLines(t))

(***************************************************************************)
(* extract_score_from_analysis: re.search(r'Score:\s*(\d+)', text).        *)
(***************************************************************************)
ScoreToken == <<"S", "c", "o", "r", "e", ":">>

DigitValue(c) ==
    CASE c = "0" -> 0 [] c = "1" -> 1 [] c = "2" -> 2 [] c = "3" -> 3
      [] c = "4" -> 4 [] c = "5" -> 5 [] c = "6" -> 6 [] c = "7" -> 7
      [] c = "8" -> 8 [] c = "9" -> 9

\* \s* and \d+ are greedy: the first index from j on that is not a space
\* (not a digit), Len(t) + 1 when there is none.
RECURSIVE SkipSpaces(_, _)
SkipSpaces(t, j) == IF j <= Len(t) /\ IsSpace(t[j]) THEN SkipSpaces(t, j + 1) ELSE j

RECURSIVE SkipDigits(_, _)
SkipDigits(t, j) == IF j <= Len(t) /\ IsDigit(t[j]) THEN SkipDigits(t, j + 1) ELSE j

\* int(group(1)), left to right.
RECURSIVE IntOf(_, _)
IntOf(acc, ds) ==
    IF ds = <<>> THEN acc ELSE IntOf(10 * acc + DigitValue(Head(ds)), Tail(ds))

\* Whether the pattern matches at index i.
ScoreMatchAt(t, i) ==
    /\ StartsWith(SubSeq(t, i, Len(t)), ScoreToken)
    /\ LET j == SkipSpaces(t, i + Len(ScoreToken))
       IN  j <= Len(t) /\ IsDigit(t[j])

ScoreGroup(t, i) ==
    LET j == SkipSpaces(t, i + Len(ScoreToken))
    IN  SubSeq(t, j, SkipDigits(t, j) - 1)

\* re.search: the leftmost index where the pattern matches.
RECURSIVE ScoreSearch(_, _)
ScoreSearch(t, i) ==
    IF i > Len(t) THEN 0
    ELSE IF ScoreMatchAt(t, i) THEN IntOf(0, ScoreGroup(t, i))
    ELSE ScoreSearch(t, i + 1)

\* Mutant: the score is cut to the 0..100 range.
ExtractScoreClamped(t) ==
    IF ScoreSearch(t, 1) > 100 THEN 100 ELSE ScoreSearch(t, 1)

extract_score_from_analysis(t) == ScoreSearch(t, 1)

(***************************************************************************)
(* get_course_recommendations: the parser of the model's reply.  A course  *)
(* is a dict: the set of its <<key, value>> pairs.                         *)
(***************************************************************************)
CoursePrefix == <<"C", "o", "u", "r", "s", "e">>

TitlePrefix == <<"T", "i", "t", "l", "e", ":">>

DescriptionPrefix ==
    <<"D", "e", "s", "c", "r", "i", "p", "t", "i", "o", "n", ":">>

LinkPrefix == <<"L", "i", "n", "k", ":">>

\* d[k] = v
SetKey(d, k, v) == {p \in d : p[1] # k} \cup {<<k, v>>}

\* line.replace(prefix, '').strip()
FieldValue(line, prefix) == Strip(ReplaceAll(line, prefix))

EmptyResponse == "Empty response from Gemini API"

\* The fallback list; each text is kept whole, as one element.
FallbackRecommendations ==
    << { <<"title", <<"Professional Development Course">>>>,
         <<"description",
           <<"Enhance your professional skills with this comprehensive course.">>>>,
         <<"link", <<"https://www.coursera.org/learn/professional-development">>>> },
       { <<"title", <<"Technical Skills Training">>>>,
         <<"description",
           <<"Improve your technical expertise with hands-on projects.">>>>,
         <<"link", <<"https://www.udemy.com/courses/development/">>>> },
       { <<"title", <<"Soft Skills Workshop">>>>,
         <<"description", <<"Develop essential soft skills for career growth.">>>>,
         <<"link", <<"https://www.linkedin.com/learning/">>>> } >>

\* Mutant: the course is appended whether or not it is empty.
AppendCourseAlways(recs, cur) == Append(recs, cur)

\* `if current_course: recommendations.append(current_course)`
AppendCourse(recs, cur) == IF cur # {} THEN Append(recs, cur) ELSE recs

\* One iteration of `for line in lines` on [recs, cur].
ParseLine(st, raw) ==
    LET line == Strip(raw)
    IN  IF StartsWith(line, CoursePrefix)
        THEN [recs |-> AppendCourse(st.recs, st.cur), cur |-> {}]
        ELSE IF StartsWith(line, TitlePrefix)
        THEN [st EXCEPT !.cur = SetKey(@, "title", FieldValue(line, TitlePrefix))]
        ELSE IF StartsWith(line, DescriptionPrefix)
        THEN [st EXCEPT !.cur =
                 SetKey(@, "description", FieldValue(line, DescriptionPrefix))]
        ELSE IF StartsWith(line, LinkPrefix)
        THEN [st EXCEPT !.cur = SetKey(@, "link", FieldValue(line, LinkPrefix))]
        ELSE st

\* `if not recommendations: recommendations = [fallback]`
OrFallback(recs) == IF recs = <<>> THEN FallbackRecommendations ELSE recs

\* Mutant: the list is returned whole.
FirstThreeUncut(recs) == recs

\* recommendations[:3]
FirstThree(recs) ==
    SubSeq(recs, 1, IF Len(recs) < MaxRecommendations THEN Len(recs)
                    ELSE MaxRecommendations)

(***************************************************************************)
(* POST /analyze.                                                          *)
(***************************************************************************)
Letters ==
    {"a", "b", "c", "d", "e", "f", "g", "h", "i", "j", "k", "l", "m", "n", "o",
     "p", "q", "r", "s", "t", "u", "v", "w", "x", "y", "z",
     "A", "B", "C", "D", "E", "F", "G", "H", "I", "J", "K", "L", "M", "N", "O",
     "P", "Q", "R", "S", "T", "U", "V", "W", "X", "Y", "Z"}

\* What secure_filename keeps: [A-Za-z0-9_.-].
IsSafeChar(c) == c \in Letters \/ IsDigit(c) \/ c \in {"_", ".", "-"}

\* "_".join(s.split()): runs of whitespace inside become one "_", those at
\* the ends go.
RECURSIVE JoinWords(_)
JoinWords(s) ==
    LET t == Strip(s)
    IN  IF t = <<>> THEN <<>>
        ELSE IF IsSpace(Head(t)) THEN <<"_">> \o JoinWords(LStrip(t))
        ELSE <<Head(t)>> \o JoinWords(Tail(t))

RECURSIVE LStripDots(_)
LStripDots(s) ==
    IF s # <<>> /\ Head(s) \in {".", "_"} THEN LStripDots(Tail(s)) ELSE s

RECURSIVE RStripDots(_)
RStripDots(s) ==
    IF s # <<>> /\ s[Len(s)] \in {".", "_"}
    THEN RStripDots(SubSeq(s, 1, Len(s) - 1)) ELSE s

\* werkzeug's secure_filename: path separators become spaces, the words are
\* joined with "_", unsafe characters go, and so do "." and "_" at the ends.
secure_filename(fn) ==
    LET spaced == [i \in 1..Len(fn) |-> IF fn[i] = "/" THEN " " ELSE fn[i]]
    IN  RStripDots(LStripDots(SelectSeq(JoinWords(spaced), IsSafeChar)))

\* os.path.join(app.config['UPLOAD_FOLDER'], filename)
UploadPath(fn) == <<"uploads", "/">> \o fn

DotPdf == <<".", "p", "d", "f">>

\* The uploads' names the model draws from.
Filenames ==
    { <<>>,
      <<"c", "v", ".", "p", "d", "f">>,
      <<"/", "c", "v", ".", "p", "d", "f">>,
      <<"a", " ", "b", ".", "p", "d", "f">>,
      <<"c", "v", ".", "t", "x", "t">>,
      <<"c", "v", ".", "P", "D", "F">> }

\* The uploads' contents: what the OCR engine answers for each page.
Docs ==
    { <<ResultLines(<<OcrLine(<<"a">>)>>)>>,
      <<ResultLines(<<OcrLine(<<" ">>)>>)>>,
      <<ResultFirstNone>> }

Reqs == 1..NumReqs

\* No file at a path; no request (of a file's owner).
NoFile == 0

\* request.files without the 'resume' field.
NoFieldRequest == [hasField |-> FALSE, filename |-> <<>>, doc |-> <<>>]

Requests ==
    {NoFieldRequest} \cup [hasField : {TRUE}, filename : Filenames, doc : Docs]

NoRequest == [hasField |-> FALSE, filename |-> <<"-">>, doc |-> <<>>]

Paths == {UploadPath(secure_filename(fn)) : fn \in Filenames}

NoResponse == [status |-> 0, error |-> ""]

\* jsonify({'error': msg}), 400
Rejection(msg) == [status |-> 400, error |-> msg]

\* jsonify({...}) of the success path; the body is left out.
Success == [status |-> 200, error |-> ""]

\* Mutant: the handler answers with a fixed message.
ExceptResponseGeneric(msg) == [status |-> 500, error |-> "Internal Server Error"]

\* except Exception as e: return jsonify({'error': str(e)}), 500
ExceptResponse(msg) == [status |-> 500, error |-> msg]

\* Mutant: the empty-filename check is missing.
ValidateNoEmptyCheck(q) ==
    IF ~q.hasField THEN Rejection("No file uploaded")
    ELSE IF ~EndsWith(q.filename, DotPdf)
    THEN Rejection("Only PDF files are supported")
    ELSE NoResponse

\* The three checks before the try block; NoResponse when all pass.
Validate(q) ==
    IF ~q.hasField THEN Rejection("No file uploaded")
    ELSE IF q.filename = <<>> THEN Rejection("No file selected")
    ELSE IF ~EndsWith(q.filename, DotPdf)
    THEN Rejection("Only PDF files are supported")
    ELSE NoResponse

\* Mutant: the save refuses to replace an existing file.
SaveFileExclusive(files, path, r) ==
    IF files[path] # NoFile THEN Raised("File exists")
    ELSE Returned([files EXCEPT ![path] = r])

\* file.save(filepath): the file at the path now holds r's upload, whatever
\* was there.
SaveFile(files, path, r) == Returned([files EXCEPT ![path] = r])

\* str(e) of the exceptions the stages raise.
SaveError == "cannot write the upload"

PdfError == "Unable to get page count"

NoTextError == "No text could be extracted from the PDF"

ApiError == "the API call failed"

RemoveError == "No such file or directory"

VARIABLES
    \* POST /analyze, per request
    pc, req, fs, resp, exc, saved, readFrom, text, removed,
    \* get_course_recommendations
    reply, lines, recommendations, current_course, rpc, rout,
    \* extract_score_from_analysis
    analysis_text, score, spc,
    \* extract_contact_info
    contact_text, name, cpc,
    \* extract_text_from_pdf
    images, page, ocr_text, ocr_out, opc

hvars == <<pc, req, fs, resp, exc, saved, readFrom, text, removed>>

rvars == <<reply, lines, recommendations, current_course, rpc, rout>>

svars == <<analysis_text, score, spc>>

cvars == <<contact_text, name, cpc>>

ovars == <<images, page, ocr_text, ocr_out, opc>>

vars == <<hvars, rvars, svars, cvars, ovars>>

\* The parts of the state a specification does not use.
HandlerIdle ==
    /\ pc = [r \in Reqs |-> "done"]
    /\ req = [r \in Reqs |-> NoRequest]
    /\ fs = [p \in Paths |-> NoFile]
    /\ resp = [r \in Reqs |-> NoResponse]
    /\ exc = [r \in Reqs |-> ""]
    /\ saved = [r \in Reqs |-> FALSE]
    /\ readFrom = [r \in Reqs |-> NoFile]
    /\ text = [r \in Reqs |-> <<>>]
    /\ removed = [r \in Reqs |-> NoFile]

RecommendIdle ==
    /\ reply = <<>>
    /\ lines = <<>>
    /\ recommendations = <<>>
    /\ current_course = {}
    /\ rpc = "done"
    /\ rout = Returned(<<>>)

ScoreIdle == analysis_text = <<>> /\ score = 0 /\ spc = "done"

ContactIdle == contact_text = <<>> /\ name = None /\ cpc = "done"

OcrIdle ==
    /\ images = <<>>
    /\ page = 0
    /\ ocr_text = <<>>
    /\ ocr_out = Returned(<<>>)
    /\ opc = "done"

\* The path of the request's scratch file.
PathOf(r) == UploadPath(secure_filename(req[r].filename))

\* The handler's except block: the response, and the request is over.
Fail(r, msg) ==
    /\ exc' = [exc EXCEPT ![r] = msg]
    /\ resp' = [resp EXCEPT ![r] = ExceptResponse(msg)]
    /\ pc' = [pc EXCEPT ![r] = "done"]

\* A request arrives and is validated.
Receive(r) ==
    /\ pc[r] = "idle"
    /\ \E q \in Requests :
          /\ req' = [req EXCEPT ![r] = q]
          /\ IF Validate(q) # NoResponse
             THEN /\ resp' = [resp EXCEPT ![r] = Validate(q)]
                  /\ pc' = [pc EXCEPT ![r] = "done"]
             ELSE /\ resp' = resp
                  /\ pc' = [pc EXCEPT ![r] = "save"]
    /\ UNCHANGED <<fs, exc, saved, readFrom, text, removed>>
    /\ UNCHANGED <<rvars, svars, cvars, ovars>>

\* file.save(filepath)
Save(r) ==
    /\ pc[r] = "save"
    /\ LET res == SaveFile(fs, PathOf(r), r)
       IN  IF res.kind = "raise"
           THEN Fail(r, res.error) /\ UNCHANGED <<fs, saved>>
           ELSE /\ fs' = res.value
                /\ saved' = [saved EXCEPT ![r] = TRUE]
                /\ pc' = [pc EXCEPT ![r] = "extract"]
                /\ UNCHANGED <<resp, exc>>
    /\ UNCHANGED <<req, readFrom, text, removed>>
    /\ UNCHANGED <<rvars, svars, cvars, ovars>>

\* file.save(filepath) fails to write.
SaveFails(r) ==
    /\ pc[r] = "save"
    /\ Fail(r, SaveError)
    /\ UNCHANGED <<req, fs, saved, readFrom, text, removed>>
    /\ UNCHANGED <<rvars, svars, cvars, ovars>>

\* text = extract_text_from_pdf(filepath): reads whatever file is at the
\* path now.
Extract(r) ==
    /\ pc[r] = "extract"
    /\ LET owner == fs[PathOf(r)]
           res == IF owner = NoFile THEN Raised(PdfError)
                  ELSE extract_text_from_pdf(req[owner].doc)
       IN  /\ readFrom' = [readFrom EXCEPT ![r] = owner]
           /\ IF res.kind = "raise"
              THEN Fail(r, res.error) /\ text' = text
              ELSE /\ text' = [text EXCEPT ![r] = res.value]
                   /\ pc' = [pc EXCEPT ![r] = "check"]
                   /\ UNCHANGED <<resp, exc>>
    /\ UNCHANGED <<req, fs, saved, removed>>
    /\ UNCHANGED <<rvars, svars, cvars, ovars>>

\* if not text.strip(): raise ValueError(...)
CheckText(r) ==
    /\ pc[r] = "check"
    /\ IF Strip(text[r]) = <<>>
       THEN Fail(r, NoTextError)
       ELSE pc' = [pc EXCEPT ![r] = "analyze"] /\ UNCHANGED <<resp, exc>>
    /\ UNCHANGED <<req, fs, saved, readFrom, text, removed>>
    /\ UNCHANGED <<rvars, svars, cvars, ovars>>

\* analysis = analyze_resume(text): the reply, an empty reply or a failed
\* call.
analyze_resume(r) ==
    /\ pc[r] = "analyze"
    /\ \/ pc' = [pc EXCEPT ![r] = "recommend"] /\ UNCHANGED <<resp, exc>>
       \/ \E msg \in {EmptyResponse, ApiError} : Fail(r, msg)
    /\ UNCHANGED <<req, fs, saved, readFrom, text, removed>>
    /\ UNCHANGED <<rvars, svars, cvars, ovars>>

\* recommendations = get_course_recommendations(analysis)
get_course_recommendations(r) ==
    /\ pc[r] = "recommend"
    /\ \/ pc' = [pc EXCEPT ![r] = "remove"] /\ UNCHANGED <<resp, exc>>
       \/ \E msg \in {EmptyResponse, ApiError} : Fail(r, msg)
    /\ UNCHANGED <<req, fs, saved, readFrom, text, removed>>
    /\ UNCHANGED <<rvars, svars, cvars, ovars>>

\* os.remove(filepath), then the 200 response.
Remove(r) ==
    /\ pc[r] = "remove"
    /\ IF fs[PathOf(r)] = NoFile
       THEN Fail(r, RemoveError) /\ UNCHANGED <<fs, removed>>
       ELSE /\ fs' = [fs EXCEPT ![PathOf(r)] = NoFile]
            /\ removed' = [removed EXCEPT ![r] = fs[PathOf(r)]]
            /\ resp' = [resp EXCEPT ![r] = Success]
            /\ pc' = [pc EXCEPT ![r] = "done"]
            /\ exc' = exc
    /\ UNCHANGED <<req, saved, readFrom, text>>
    /\ UNCHANGED <<rvars, svars, cvars, ovars>>

InitAnalyze ==
    /\ pc = [r \in Reqs |-> "idle"]
    /\ req = [r \in Reqs |-> NoRequest]
    /\ fs = [p \in Paths |-> NoFile]
    /\ resp = [r \in Reqs |-> NoResponse]
    /\ exc = [r \in Reqs |-> ""]
    /\ saved = [r \in Reqs |-> FALSE]
    /\ readFrom = [r \in Reqs |-> NoFile]
    /\ text = [r \in Reqs |-> <<>>]
    /\ removed = [r \in Reqs |-> NoFile]
    /\ RecommendIdle /\ ScoreIdle /\ ContactIdle /\ OcrIdle

NextAnalyze ==
    \E r \in Reqs :
        \/ Receive(r)
        \/ Save(r)
        \/ SaveFails(r)
        \/ Extract(r)
        \/ CheckText(r)
        \/ analyze_resume(r)
        \/ get_course_recommendations(r)
        \/ Remove(r)

SpecAnalyze == InitAnalyze /\ [][NextAnalyze]_vars

(***************************************************************************)
(* get_course_recommendations, line by line.                               *)
(***************************************************************************)
\* "\n".join(ls)
RECURSIVE JoinLines(_)
JoinLines(ls) ==
    IF ls = <<>> THEN <<>>
    ELSE IF Len(ls) = 1 THEN Head(ls)
    ELSE Head(ls) \o <<"\n">> \o JoinLines(Tail(ls))

CourseLine(n) == CoursePrefix \o <<" ", n, ":">>

\* The texts a reply in the template gives a title, a description, a link.
TitleTexts == {<<"x">>, <<"a", " ">> \o TitlePrefix \o <<" ", "b">>}

DescriptionTexts == {<<"y", " ", "y">>}

LinkTexts == {<<"z">>, <<>>}

\* A reply in the prompt's template: three courses, each a 'Course N:' line
\* and its three fields; pad is what precedes each line and sep is what
\* separates two courses.
TemplateReply(c, pad, sep) ==
    LET course(n) ==
            << pad \o CourseLine(n),
               pad \o TitlePrefix \o <<" ">> \o c[n].title,
               pad \o DescriptionPrefix \o <<" ">> \o c[n].description,
               pad \o LinkPrefix \o <<" ">> \o c[n].link >>
    IN  JoinLines(course("1") \o sep \o course("2") \o sep \o course("3"))

TemplateReplies ==
    { TemplateReply(c, pad, sep) :
        c \in [{"1", "2", "3"} ->
                  [title : TitleTexts, description : DescriptionTexts,
                   link : LinkTexts]],
        pad \in {<<>>, <<" ", " ">>},
        sep \in {<<>>, <<<<>>>>} }

\* The lines of the long free-form replies.
FewLines == {CourseLine("1"), TitlePrefix \o <<" ", "x">>, <<"y">>}

\* The lines of the short free-form replies.
ManyLines ==
    { <<" ">> \o CoursePrefix,
      CoursePrefix \o <<"r", "a">>,
      <<"c", "o", "u", "r", "s", "e">>,
      TitlePrefix,
      <<" ">> \o TitlePrefix \o <<" ", "a", " ">> \o TitlePrefix \o <<"b", " ">>,
      DescriptionPrefix \o <<"y">>,
      LinkPrefix \o <<" ">> \o TitlePrefix \o <<"z">>,
      <<"x", " ">> \o TitlePrefix,
      <<>> }

\* response.text: the replies the model draws from.
Replies ==
    TemplateReplies
    \cup {JoinLines(ls) : ls \in SeqsUpTo(FewLines, MaxLongLines)}
    \cup {JoinLines(ls) : ls \in SeqsUpTo(ManyLines, MaxShortLines)}

\* response = model.generate_content(prompt); the empty-reply check; the
\* split.
RecommendCall ==
    /\ rpc = "call"
    /\ IF reply = <<>>
       THEN /\ rout' = Raised(EmptyResponse)
            /\ rpc' = "done"
            /\ UNCHANGED <<lines, recommendations, current_course>>
       ELSE /\ lines' = SplitLines(reply)
            /\ recommendations' = <<>>
            /\ current_course' = {}
            /\ rpc' = "loop"
            /\ rout' = rout
    /\ reply' = reply
    /\ UNCHANGED <<hvars, svars, cvars, ovars>>

\* One iteration of `for line in lines`.
RecommendLine ==
    /\ rpc = "loop"
    /\ lines # <<>>
    /\ LET st == ParseLine([recs |-> recommendations, cur |-> current_course],
                           Head(lines))
       IN  recommendations' = st.recs /\ current_course' = st.cur
    /\ lines' = Tail(lines)
    /\ UNCHANGED <<reply, rpc, rout>>
    /\ UNCHANGED <<hvars, svars, cvars, ovars>>

\* After the loop: the last course.
RecommendFlush ==
    /\ rpc = "loop"
    /\ lines = <<>>
    /\ recommendations' = AppendCourse(recommendations, current_course)
    /\ rpc' = "fallback"
    /\ UNCHANGED <<reply, lines, current_course, rout>>
    /\ UNCHANGED <<hvars, svars, cvars, ovars>>

\* The fallback and `return recommendations[:3]`.
RecommendReturn ==
    /\ rpc = "fallback"
    /\ recommendations' = OrFallback(recommendations)
    /\ rout' = Returned(FirstThree(recommendations'))
    /\ rpc' = "done"
    /\ UNCHANGED <<reply, lines, current_course>>
    /\ UNCHANGED <<hvars, svars, cvars, ovars>>

InitRecommend ==
    /\ reply \in Replies
    /\ lines = <<>>
    /\ recommendations = <<>>
    /\ current_course = {}
    /\ rpc = "call"
    /\ rout = Returned(<<>>)
    /\ HandlerIdle /\ ScoreIdle /\ ContactIdle /\ OcrIdle

NextRecommend ==
    \/ RecommendCall
    \/ RecommendLine
    \/ RecommendFlush
    \/ RecommendReturn

SpecRecommend == InitRecommend /\ [][NextRecommend]_vars

(***************************************************************************)
(* extract_score_from_analysis.                                            *)
(***************************************************************************)
ScorePieces ==
    {ScoreToken, <<"S", "c", "o", "r", "e">>, <<" ">>, <<"8">>, <<"7">>, <<"x">>}

AnalysisTexts == {Concat(ps) : ps \in SeqsUpTo(ScorePieces, MaxPieces)}

ExtractScore ==
    /\ spc = "call"
    /\ score' = extract_score_from_analysis(analysis_text)
    /\ spc' = "done"
    /\ analysis_text' = analysis_text
    /\ UNCHANGED <<hvars, rvars, cvars, ovars>>

InitScore ==
    /\ analysis_text \in AnalysisTexts
    /\ score = 0
    /\ spc = "call"
    /\ HandlerIdle /\ RecommendIdle /\ ContactIdle /\ OcrIdle

NextScore == ExtractScore

SpecScore == InitScore /\ [][NextScore]_vars

(***************************************************************************)
(* extract_contact_info.                                                   *)
(***************************************************************************)
ContactChars == {"a", " ", "1", "\n"}

ContactTexts == SeqsUpTo(ContactChars, MaxTextLen)

extract_contact_info ==
    /\ cpc = "call"
    /\ name' = ExtractName(contact_text)
    /\ cpc' = "done"
    /\ contact_text' = contact_text
    /\ UNCHANGED <<hvars, rvars, svars, ovars>>

InitContact ==
    /\ contact_text \in ContactTexts
    /\ name = None
    /\ cpc = "call"
    /\ HandlerIdle /\ RecommendIdle /\ ScoreIdle /\ OcrIdle

NextContact == extract_contact_info

SpecContact == InitContact /\ [][NextContact]_vars

(***************************************************************************)
(* extract_text_from_pdf, page by page.                                    *)
(***************************************************************************)
OcrLines == {NoneLine, ShortLine, OcrLine(<<"a">>), OcrLine(<<" ">>)}

PageResults ==
    {ResultNone, ResultFirstNone}
    \cup {ResultLines(ls) : ls \in SeqsUpTo(OcrLines, MaxPageLines)}

\* One iteration of `for image in images`.
OcrNextPage ==
    /\ opc = "loop"
    /\ page < Len(images)
    /\ LET res == OcrPage(ocr_text, images[page + 1])
       IN  IF res.kind = "raise"
           THEN ocr_out' = res /\ opc' = "done" /\ UNCHANGED <<page, ocr_text>>
           ELSE /\ ocr_text' = res.value
                /\ page' = page + 1
                /\ UNCHANGED <<ocr_out, opc>>
    /\ images' = images
    /\ UNCHANGED <<hvars, rvars, svars, cvars>>

\* return text
OcrReturn ==
    /\ opc = "loop"
    /\ page = Len(images)
    /\ ocr_out' = Returned(ocr_text)
    /\ opc' = "done"
    /\ UNCHANGED <<images, page, ocr_text>>
    /\ UNCHANGED <<hvars, rvars, svars, cvars>>

InitOcr ==
    /\ images \in SeqsUpTo(PageResults, MaxPages)
    /\ page = 0
    /\ ocr_text = <<>>
    /\ ocr_out = Returned(<<>>)
    /\ opc = "loop"
    /\ HandlerIdle /\ RecommendIdle /\ ScoreIdle /\ ContactIdle

NextOcr == OcrNextPage \/ OcrReturn

SpecOcr == InitOcr /\ [][NextOcr]_vars

(***************************************************************************)
(* Properties of POST /analyze (SpecAnalyze).                              *)
(***************************************************************************)
\* The exact, case-sensitive suffix '.pdf'.
HasPdfSuffix(fn) ==
    /\ Len(fn) >= 4
    /\ fn[Len(fn) - 3] = "."
    /\ fn[Len(fn) - 2] = "p"
    /\ fn[Len(fn) - 1] = "d"
    /\ fn[Len(fn)] = "f"

\* The request was answered before anything was saved or any stage ran.
Untouched(r) ==
    /\ pc[r] = "done"
    /\ ~saved[r]
    /\ exc[r] = ""
    /\ readFrom[r] = NoFile
    /\ removed[r] = NoFile
    /\ text[r] = <<>>
    /\ \A p \in Paths : fs[p] # r

\* C1: a request is rejected in a fixed order, before anything is saved or
\* any stage runs: no 'resume' field gives 400 'No file uploaded'; else an
\* empty filename gives 400 'No file selected'; else a filename without the
\* exact suffix '.pdf' gives 400 'Only PDF files are supported'; only a
\* request that passes the three checks enters the pipeline.
C1_ValidationOrder ==
    \A r \in Reqs :
        req[r] # NoRequest =>
            IF ~req[r].hasField
            THEN resp[r] = [status |-> 400, error |-> "No file uploaded"]
                 /\ Untouched(r)
            ELSE IF req[r].filename = <<>>
            THEN resp[r] = [status |-> 400, error |-> "No file selected"]
                 /\ Untouched(r)
            ELSE IF ~HasPdfSuffix(req[r].filename)
            THEN resp[r] = [status |-> 400, error |-> "Only PDF files are supported"]
                 /\ Untouched(r)
            ELSE resp[r].status # 400 /\ (pc[r] = "save" \/ saved[r] \/ exc[r] # "")

\* 'cv.PDF' is rejected while another request is in the pipeline with its
\* file saved.
C1_Witness ==
    \E r, o \in Reqs :
        /\ req[r].hasField
        /\ req[r].filename = <<"c", "v", ".", "P", "D", "F">>
        /\ resp[r] = [status |-> 400, error |-> "Only PDF files are supported"]
        /\ saved[o]
        /\ pc[o] = "extract"

\* C2: once a request that passed validation has returned its response (200
\* or 500), the scratch file it saved no longer exists.
C2_ScratchFileDeleted ==
    \A r \in Reqs : (pc[r] = "done" /\ saved[r]) => fs[PathOf(r)] # r

\* C3: for a request that passed validation, an exception raised by any stage
\* gives a 500 response whose error is the exception's message, never a 200;
\* a text that is empty after trimming gives 500 'No text could be extracted
\* from the PDF'.
C3_ExceptionGives500 ==
    \A r \in Reqs :
        (pc[r] = "done" /\ req[r].hasField /\ HasPdfSuffix(req[r].filename)) =>
            /\ resp[r].status \in {200, 500}
            /\ exc[r] # "" => resp[r] = [status |-> 500, error |-> exc[r]]
            /\ resp[r].status = 200 => exc[r] = ""
            \* the save failed
            /\ ~saved[r] => resp[r].status = 500
            \* the file was gone when the text was extracted
            /\ (saved[r] /\ readFrom[r] = NoFile) =>
                   resp[r] = [status |-> 500, error |-> PdfError]
            /\ readFrom[r] # NoFile =>
                   LET res == extract_text_from_pdf(req[readFrom[r]].doc)
                   IN  \* the extraction raised
                       /\ res.kind = "raise" =>
                              resp[r] = [status |-> 500, error |-> res.error]
                       \* only whitespace was extracted
                       /\ (res.kind = "return"
                           /\ \A i \in 1..Len(res.value) : IsSpace(res.value[i])) =>
                              resp[r] = [status |-> 500, error |-> NoTextError]
            \* the file was gone when it was to be removed
            /\ (resp[r].status = 200) => removed[r] # NoFile

\* OCR gave only whitespace, and the answer is 500 with that message.
C3_Witness ==
    \E r \in Reqs :
        /\ pc[r] = "done"
        /\ text[r] # <<>>
        /\ Strip(text[r]) = <<>>
        /\ resp[r] = [status |-> 500, error |-> NoTextError]

\* C7: a save onto a path that holds a file (another request's upload) is
\* not refused and not delayed: unless the write itself fails, it replaces
\* the file with the saver's upload and the request goes on to extract.
C7_SilentOverwrite ==
    [][\A r \in Reqs :
          (pc[r] = "save" /\ pc'[r] # "save" /\ exc'[r] # SaveError) =>
              /\ pc'[r] = "extract"
              /\ exc'[r] = ""
              /\ fs'[PathOf(r)] = r]_vars

\* Two requests with different filenames that sanitize to the same name: one
\* extracted its text from the other's upload and removed the other's file,
\* and the other found its file gone.
C7_Witness ==
    \E r, o \in Reqs :
        /\ r # o
        /\ req[r].filename # req[o].filename
        /\ PathOf(r) = PathOf(o)
        /\ saved[r] /\ saved[o]
        /\ readFrom[r] = o
        /\ removed[r] = o
        /\ resp[r].status = 200
        /\ exc[o] \in {PdfError, RemoveError}

(***************************************************************************)
(* Properties of the reply parser (SpecRecommend).  The reference below    *)
(* reads the entries off the reply's lines: a segment is what follows a    *)
(* line beginning with 'Course' (or the start of the reply) up to the next *)
(* such line, and its entry holds, per key, the segment's last line with   *)
(* that key's prefix.                                                      *)
(***************************************************************************)
StrippedLines(t) == [i \in 1..Len(SplitLines(t)) |-> Strip(SplitLines(t)[i])]

KeyOf(l) ==
    IF StartsWith(l, CoursePrefix) THEN ""
    ELSE IF StartsWith(l, TitlePrefix) THEN "title"
    ELSE IF StartsWith(l, DescriptionPrefix) THEN "description"
    ELSE IF StartsWith(l, LinkPrefix) THEN "link"
    ELSE ""

PrefixOf(k) ==
    CASE k = "title" -> TitlePrefix
      [] k = "description" -> DescriptionPrefix
      [] k = "link" -> LinkPrefix

\* Where segments start: 0, and every line beginning with 'Course'.
SegmentStarts(t) ==
    {0} \cup {i \in 1..Len(StrippedLines(t)) :
                 StartsWith(StrippedLines(t)[i], CoursePrefix)}

SegmentEnd(t, s) ==
    LET later == {i \in SegmentStarts(t) : i > s}
    IN  IF later = {} THEN Len(StrippedLines(t))
        ELSE (CHOOSE i \in later : \A j \in later : i <= j) - 1

SegmentEntry(t, s) ==
    LET L == StrippedLines(t)
        seg == (s + 1)..SegmentEnd(t, s)
        last == {i \in seg : KeyOf(L[i]) # ""
                             /\ \A j \in seg : j > i => KeyOf(L[j]) # KeyOf(L[i])}
    IN  {<<KeyOf(L[i]), FieldValue(L[i], PrefixOf(KeyOf(L[i])))>> : i \in last}

LastStart(t) ==
    CHOOSE s \in SegmentStarts(t) : \A x \in SegmentStarts(t) : x <= s

\* The segments' entries in reply order, the empty ones left out.
RecoveredEntries(t) ==
    LET kept == {s \in SegmentStarts(t) : SegmentEntry(t, s) # {}}
        nth(k) == CHOOSE s \in kept : Cardinality({x \in kept : x <= s}) = k
    IN  [k \in 1..Cardinality(kept) |-> SegmentEntry(t, nth(k))]

\* The reply's lines that are not blank, stripped.
NonBlankLines(t) ==
    LET NotBlank(l) == l # <<>>
    IN  SelectSeq(StrippedLines(t), NotBlank)

\* A reply in the documented template: for N = 1..3 a 'Course N:' line
\* followed by a 'Title:', a 'Description:' and a 'Link:' line.
WellFormed(t) ==
    LET L == NonBlankLines(t)
    IN  /\ Len(L) = 12
        /\ \A n \in 0..2 :
              /\ L[4 * n + 1] = CourseLine(<<"1", "2", "3">>[n + 1])
              /\ StartsWith(L[4 * n + 2], TitlePrefix)
              /\ StartsWith(L[4 * n + 3], DescriptionPrefix)
              /\ StartsWith(L[4 * n + 4], LinkPrefix)

\* The line's text with only its prefix taken off, trimmed.
Verbatim(l, prefix) == Strip(SubSeq(l, Len(prefix) + 1, Len(l)))

VerbatimEntry(t, n) ==
    LET L == NonBlankLines(t)
    IN  { <<"title", Verbatim(L[4 * n + 2], TitlePrefix)>>,
          <<"description", Verbatim(L[4 * n + 3], DescriptionPrefix)>>,
          <<"link", Verbatim(L[4 * n + 4], LinkPrefix)>> }

\* C4 (its first half): given a well-formed three-course reply, the parser
\* returns exactly three entries, in reply order, whose title, description
\* and link are the line's text verbatim with only the known prefix stripped
\* and the surrounding whitespace trimmed.
C4_TemplateVerbatim ==
    (rpc = "done" /\ WellFormed(reply)) =>
        rout = Returned(<<VerbatimEntry(reply, 0), VerbatimEntry(reply, 1),
                          VerbatimEntry(reply, 2)>>)

\* C8 as amended: every line beginning with 'Course' starts a new entry, the
\* 'Title:' / 'Description:' / 'Link:' lines that follow are assigned to the
\* current entry, and an entry is put into the result, at the next 'Course'
\* line or when the reply ends, only if it has received at least one of
\* those lines.
C8_FlushedIfNotEmpty ==
    rpc = "fallback" => recommendations = RecoveredEntries(reply)

\* The reply ends in a 'Course' line with nothing after it, and the entry it
\* started is not in the result.
C8_Witness ==
    /\ rpc = "fallback"
    /\ LastStart(reply) > 0
    /\ SegmentEntry(reply, LastStart(reply)) = {}
    /\ recommendations # <<>>
    /\ recommendations[Len(recommendations)] # {}

\* C8 as stated: the entry under construction when the reply ends is flushed
\* into the result whether or not it has received a field.
C8_FlushedUnconditionally ==
    (rpc = "fallback" /\ LastStart(reply) > 0) =>
        /\ recommendations # <<>>
        /\ recommendations[Len(recommendations)]
               = SegmentEntry(reply, LastStart(reply))

\* C9: whenever the reply is not empty a list is returned, of one to three
\* entries: the first three recovered entries, in reply order, when at least
\* one entry was recovered, and the fallback list when none was.
C9_OneToThree ==
    (rpc = "done" /\ reply # <<>>) =>
        /\ rout.kind = "return"
        /\ Len(rout.value) \in 1..3
        /\ LET rec == RecoveredEntries(reply)
           IN  IF rec # <<>>
               THEN /\ Len(rout.value) = (IF Len(rec) < 3 THEN Len(rec) ELSE 3)
                    /\ \A k \in 1..Len(rout.value) : rout.value[k] = rec[k]
               ELSE rout.value = FallbackRecommendations

\* The reply holds more than three entries and three are returned.
C9_Witness ==
    /\ rpc = "done"
    /\ Len(RecoveredEntries(reply)) > 3
    /\ Len(rout.value) = 3

(***************************************************************************)
(* Properties of extract_score_from_analysis (SpecScore).                  *)
(***************************************************************************)
\* 'Score:' is at i, followed by whitespace up to j and by the digits j..e,
\* all the digits there are.
ScoreAt(t, i, j, e) ==
    /\ i + 5 <= Len(t)
    /\ \A k \in 1..6 : t[i + k - 1] = <<"S", "c", "o", "r", "e", ":">>[k]
    /\ i + 6 <= j /\ j <= e /\ e <= Len(t)
    /\ \A k \in (i + 6)..(j - 1) : IsSpace(t[k])
    /\ \A k \in j..e : IsDigit(t[k])
    /\ e < Len(t) => ~IsDigit(t[e + 1])

RECURSIVE Decimal(_, _, _)
Decimal(t, j, e) ==
    IF e < j THEN 0 ELSE 10 * Decimal(t, j, e - 1) + DigitValue(t[e])

\* C5: the score is the integer written by the digits at the first place
\* where 'Score:' is followed, after optional whitespace, by digits; it is 0
\* when there is no such place; it is not clamped to 0..100.
C5_FirstScoreOrZero ==
    spc = "done" =>
        LET t == analysis_text
            places == {i \in 1..Len(t) :
                          \E j, e \in 1..Len(t) : ScoreAt(t, i, j, e)}
        IN  IF places = {} THEN score = 0
            ELSE LET i == CHOOSE x \in places : \A y \in places : x <= y
                 IN  \E j, e \in 1..Len(t) :
                         ScoreAt(t, i, j, e) /\ score = Decimal(t, j, e)

\* 'Score: 87' gives 87.
C5_Witness ==
    /\ spc = "done"
    /\ analysis_text = <<"S", "c", "o", "r", "e", ":", " ", "8", "7">>
    /\ score = 87

(***************************************************************************)
(* Properties of extract_contact_info (SpecContact).                       *)
(***************************************************************************)
\* The index of the k-th newline of t; 0 for k = 0, Len(t) + 1 past the last.
NthNewline(t, k) ==
    LET nl == {i \in 1..Len(t) : t[i] = "\n"}
    IN  IF k = 0 THEN 0
        ELSE IF k > Cardinality(nl) THEN Len(t) + 1
        ELSE CHOOSE i \in nl : Cardinality({j \in nl : j <= i}) = k

NumLines(t) == Cardinality({i \in 1..Len(t) : t[i] = "\n"}) + 1

\* The k-th newline-separated line of t.
LineOf(t, k) == SubSeq(t, NthNewline(t, k - 1) + 1, NthNewline(t, k) - 1)

\* l without its leading and trailing whitespace.
Trimmed(l) ==
    LET ink == {i \in 1..Len(l) : ~IsSpace(l[i])}
    IN  IF ink = {} THEN <<>>
        ELSE SubSeq(l, CHOOSE a \in ink : \A b \in ink : a <= b,
                       CHOOSE a \in ink : \A b \in ink : a >= b)

HasDigit(l) == \E i \in 1..Len(l) : IsDigit(l[i])

\* C6: the name is the trimmed content of the first line, among the first
\* five newline-separated lines only, that is non-empty after trimming and
\* holds no digit, and None when none of the five qualifies, even if a later
\* line would; with no digit in the first five lines, a name is returned if
\* and only if one of them is non-empty after trimming.
C6_NameFromFirstFive ==
    cpc = "done" =>
        LET t == contact_text
            window == 1..(IF NumLines(t) < 5 THEN NumLines(t) ELSE 5)
            good == {k \in window :
                        Trimmed(LineOf(t, k)) # <<>> /\ ~HasDigit(LineOf(t, k))}
        IN  /\ IF good = {} THEN name = None
               ELSE name = Trimmed(LineOf(t, CHOOSE k \in good :
                                                 \A m \in good : k <= m))
            /\ (\A k \in window : ~HasDigit(LineOf(t, k))) =>
                   (name # None <=>
                        \E k \in window : Trimmed(LineOf(t, k)) # <<>>)

\* Only the sixth line qualifies, and no name is returned.
C6_Witness ==
    /\ cpc = "done"
    /\ contact_text = <<"\n", "\n", "\n", "\n", "\n", "a">>
    /\ name = None

(***************************************************************************)
(* Properties of extract_text_from_pdf (SpecOcr).                          *)
(***************************************************************************)
\* Every recognized line of every page, in page order and in the engine's
\* line order, each followed by a newline.
RECURSIVE AllLines(_)
AllLines(pages) ==
    IF pages = <<>> THEN <<>>
    ELSE LET ls == Head(pages).lines
             IsText(l) == l.kind = "text"
             WithNewline(l) == l.text \o <<"\n">>
             texts == SelectSeq(ls, IsText)
         IN  Concat([i \in 1..Len(texts) |-> WithNewline(texts[i])])
             \o AllLines(Tail(pages))

\* C10: a page for which the engine returns no lines contributes nothing and
\* raises no error: the text returned is the concatenation of every
\* recognized line of the other pages, each followed by a newline.
C10_EmptyPageContributesNothing ==
    opc = "done" => ocr_out = Returned(AllLines(images))

=============================================================================
